---------------------------- MODULE Spec2Model ----------------------------
(***************************************************************************)
(* The delivery engine of the email scheduler (src/main.py): the request   *)
(* store (table tasks), the in-memory due-time heap TASK_HEAP, the         *)
(* dispatch worker _worker_loop, the reconciliation poller                 *)
(* _imap_poller_loop with the mailboxes it reads and the table inbox, the  *)
(* creation and deletion handlers, the startup rebuild initialize_app and  *)
(* the wall clock.                                                         *)
(***************************************************************************)
EXTENDS Integers, Sequences, FiniteSets, TLC

(* ------------------------------ bounds -------------------------------- *)
\* number of send-requests ever created in one behaviour
MaxTasks == 2
\* the wall clock runs over 0..MaxTime
MaxTime == 2
\* number of process restarts in one behaviour
MaxRestarts == 1
\* number of inbound messages that arrive in one behaviour
MaxMail == 1
\* number of messages in the mailboxes a re-poll starts from
MaxBox == 3

Times == 0..MaxTime

(* ------------------------------ values -------------------------------- *)
\* Python None in the nullable columns last_error and message_id
NoError == "None"
NoMsgId == 0
\* str(e) of a transport exception
SmtpError == "smtp error"

\* the sender accounts, in the order the poller's queries return them
AccountOrder == <<"a1", "a2">>
Accounts == {AccountOrder[k] : k \in 1..Len(AccountOrder)}
\* request.form["account_id"]: the account every request is composed for
Owner == AccountOrder[1]

VARIABLES
    now,       \* time.time() / datetime.now()
    tasks,     \* committed rows of table tasks: id -> row
    staged,    \* rows flushed by a creation handler and not yet committed
    nrid,      \* number of send-requests created so far (history)
    TASK_HEAP, \* the heap of (send_at.timestamp(), task_id), smallest first
    wpc,       \* position of the worker thread in _worker_loop
    wid,       \* task_id_to_process
    wfire,     \* `_` of line 188: the timestamp of the entry popped last
    wobj,      \* attributes of `task` as loaded in the worker's session
    nmsg,      \* number of Message-IDs generated so far (uuid4 is fresh); the
               \* call in progress carries Message-ID nmsg
    nrestart,  \* number of restarts so far
    mail,      \* the messages on the mail server, all mailboxes, oldest first;
               \* missed is history: a lookup of line 251 has found no request
    inbox,     \* committed rows of table inbox
    ppc,       \* position of the poller thread in _imap_poller_loop
    pacct,     \* index of the account the poller is at
    ptodo,     \* uids of the current mailbox still to be looked at
    pdirty,    \* tasks whose status the poller's session has set and not flushed
    accts,     \* committed rows of table accounts
    gemini_api_key, \* the user's row: gemini_api_key is a non-empty string
    plist,     \* `accounts` of line 220: the accounts the pass goes through
    pexpired,  \* the poller's session has committed or rolled back in this
               \* pass: its objects are expired and reload on the next access
    pmatch,    \* task_match.id of line 251 while the poller is between the
               \* lookup and the commit of a message, else 0
    quiet      \* history: "pass" while a pass runs that nothing but the poller
               \* has disturbed and in which every login succeeded, "yes" once
               \* such a pass has ended and nothing has happened since, else "no"

\* the threads that operate on TASK_HEAP: the main thread (initialize_app),
\* the request handlers of the threaded server, and the worker
Handlers == {"h1", "h2"}
Pushers == {"main"} \cup Handlers
Threads == Pushers \cup {"worker"}

VARIABLES
    HEAP_LOCK,      \* the thread that holds HEAP_LOCK, or "none"
    WORKER_STARTED, \* initialize_app has started the threads
    lpc,            \* position of each thread in its heap operation
    lent,           \* the entry a pushing thread is inserting
    lheap,          \* the heap as the thread's operation has read it
    pushed,         \* history: the entries inserted so far, in order
    popped          \* history: the entries popped so far, in order

lockVars == <<HEAP_LOCK, WORKER_STARTED, lpc, lent, lheap, pushed, popped>>

vars == <<now, tasks, staged, nrid, TASK_HEAP, wpc, wid, wfire, wobj, nmsg, gemini_api_key,
          nrestart, mail, inbox, ppc, pacct, ptodo, pdirty, accts, plist,
          pexpired, pmatch, quiet, lockVars>>

NoEntry == <<0, 0>>

\* `_` before the first pop of the process
NoFire == 0 - 1

\* no heap operation is in progress; the threads are running
LockIdle ==
    /\ HEAP_LOCK = "none"
    /\ WORKER_STARTED = TRUE
    /\ lpc = [t \in Threads |-> "idle"]
    /\ lent = [t \in Pushers |-> NoEntry]
    /\ lheap = [t \in Threads |-> <<>>]
    /\ pushed = <<>>
    /\ popped = <<>>

(* ------------------------------ the store ------------------------------ *)
\* class Task: the columns the engine reads or writes.  Four fields are
\* history, not columns: rid names the send-request the row stands for (the
\* primary key id can be reused), pops counts the pops of an entry that
\* found the request eligible, sends its successful transport calls, and
\* matched tells that the poller fetched a message whose In-Reply-To was
\* the request's stored message_id
NewTask(rid, send_at) ==
    [rid |-> rid, send_at |-> send_at, status |-> "pending", attempts |-> 0,
     last_error |-> NoError, message_id |-> NoMsgId, pops |-> 0, sends |-> 0,
     matched |-> FALSE]

\* the worker's session holds no loaded task
NoObj == NewTask(0, 0)

SetMax(S) == CHOOSE x \in S : \A y \in S : y <= x

\* INTEGER PRIMARY KEY without AUTOINCREMENT: one more than the largest id
\* in use, so the id of a deleted (or rolled back) last row is given again
NextId == LET used == DOMAIN tasks \cup DOMAIN staged
          IN  IF used = {} THEN 1 ELSE SetMax(used) + 1

\* the writer of an open transaction holds the database's write lock:
\* other sessions read the committed rows and wait with their writes
WriteLockFree == DOMAIN staged = {}

\* the unit of work writes only the columns whose value differs from the
\* value the session loaded
UpdateRow(row, loaded, new) ==
    [rid        |-> row.rid,
     pops       |-> row.pops,
     sends      |-> row.sends,
     matched    |-> row.matched,
     send_at    |-> row.send_at,
     status     |-> IF new.status # loaded.status THEN new.status ELSE row.status,
     attempts   |-> IF new.attempts # loaded.attempts THEN new.attempts ELSE row.attempts,
     last_error |-> IF new.last_error # loaded.last_error THEN new.last_error ELSE row.last_error,
     message_id |-> IF new.message_id # loaded.message_id THEN new.message_id ELSE row.message_id]

(* ------------------------------ the heap ------------------------------- *)
\* tuple order of (timestamp, task_id)
EntryLeq(a, b) == a[1] < b[1] \/ (a[1] = b[1] /\ a[2] <= b[2])

\* heapq.heappush: the heap is kept as the sorted sequence heappop reads it in
RECURSIVE HeapPush(_, _)
HeapPush(h, e) ==
    IF h = <<>> THEN <<e>>
    ELSE IF EntryLeq(e, Head(h)) THEN <<e>> \o h
    ELSE <<Head(h)>> \o HeapPush(Tail(h), e)

_push_task_heap(h, send_at, task_id) == HeapPush(h, <<send_at, task_id>>)

RECURSIVE PushAll(_, _, _)
PushAll(h, rows, ids) ==
    IF ids = {} THEN h
    ELSE LET i == CHOOSE x \in ids : \A y \in ids : x <= y
         IN  PushAll(_push_task_heap(h, rows[i].send_at, i), rows, ids \ {i})

(* ------------------------------- Init ---------------------------------- *)
Init ==
    /\ now = 0
    /\ tasks = <<>>
    /\ staged = <<>>
    /\ nrid = 0
    /\ TASK_HEAP = <<>>
    /\ wpc = "pop"
    /\ wid = 0
    /\ wfire = NoFire
    /\ wobj = NoObj
    /\ nmsg = 0
    /\ nrestart = 0
    /\ mail = <<>>
    /\ inbox = <<>>
    /\ ppc = "wait"
    /\ pacct = 0
    /\ ptodo = <<>>
    /\ pdirty = {}
    /\ accts = Accounts
    /\ gemini_api_key = TRUE
    /\ plist = {}
    /\ pexpired = FALSE
    /\ pmatch = 0
    /\ quiet = "no"
    /\ LockIdle

workerVars == <<wpc, wid, wfire, wobj>>
sessVars == <<ppc, pacct, ptodo, pdirty, plist, pexpired, pmatch>>
pollVars == <<mail, inbox, accts, gemini_api_key, sessVars>>

(* ----------------------------- the settings ---------------------------- *)
\* route /settings, lines 1050-1060: the user saves the form; the key field
\* is stored as submitted, empty or not
Settings ==
    /\ \E key \in BOOLEAN : gemini_api_key' = key
    /\ quiet' = "no"
    /\ UNCHANGED <<lockVars, now, tasks, staged, nrid, TASK_HEAP, workerVars, nmsg, nrestart,
                   mail, inbox, accts, sessVars>>

(* ------------------------------ the clock ------------------------------ *)
Tick ==
    /\ now < MaxTime
    /\ now' = now + 1
    /\ UNCHANGED <<lockVars, tasks, staged, nrid, TASK_HEAP, workerVars, nmsg, nrestart, pollVars>>
    /\ quiet' = "no"

(* ------------------------- creation and deletion ----------------------- *)
\* compose / bulk_upload: session.add(task); session.flush();
\* _push_task_heap(send_at_dt, task.id) -- the row is not committed yet
CreateFlush ==
    /\ nrid < MaxTasks
    /\ Owner \in accts
    /\ \E t \in Times :
         /\ staged' = (NextId :> NewTask(nrid + 1, t)) @@ staged
         /\ TASK_HEAP' = _push_task_heap(TASK_HEAP, t, NextId)
    /\ nrid' = nrid + 1
    /\ UNCHANGED <<lockVars, now, tasks, workerVars, nmsg, nrestart, pollVars>>
    /\ quiet' = "no"

\* compose / bulk_upload: session.commit()
CreateCommit ==
    /\ DOMAIN staged # {}
    /\ tasks' = staged @@ tasks
    /\ staged' = <<>>
    /\ UNCHANGED <<lockVars, now, nrid, TASK_HEAP, workerVars, nmsg, nrestart, pollVars>>
    /\ quiet' = "no"

\* bulk_upload: a later row of the file raises, the handler returns without
\* commit and the session's close rolls the flushed rows back
CreateRollback ==
    /\ DOMAIN staged # {}
    /\ staged' = <<>>
    /\ UNCHANGED <<lockVars, now, tasks, nrid, TASK_HEAP, workerVars, nmsg, nrestart, pollVars>>
    /\ quiet' = "no"

\* delete_task: session.delete(task); session.commit()
DeleteTask ==
    /\ WriteLockFree
    /\ \E i \in DOMAIN tasks :
         tasks' = [j \in DOMAIN tasks \ {i} |-> tasks[j]]
    /\ UNCHANGED <<lockVars, now, staged, nrid, TASK_HEAP, workerVars, nmsg, nrestart, pollVars>>
    /\ quiet' = "no"

\* delete_account: session.delete(account); session.commit().  The delete
\* cascades to the account's tasks (Account.tasks, line 118)
DeleteAccount ==
    /\ WriteLockFree
    /\ \E a \in accts :
         /\ accts' = accts \ {a}
         /\ tasks' = IF a = Owner THEN <<>> ELSE tasks
    /\ UNCHANGED <<lockVars, gemini_api_key, now, staged, nrid, TASK_HEAP, workerVars, nmsg, nrestart, mail,
                   inbox, sessVars>>
    /\ quiet' = "no"

(* ------------------------------ the worker ----------------------------- *)
\* a worker that popped without looking at the clock
DueWhenever(h, t) == h # <<>>

\* TASK_HEAP and TASK_HEAP[0][0] <= time.time()
Due(h, t) == h # <<>> /\ Head(h)[1] <= t

\* lines 185-188: pop the earliest entry if it is due
WorkerPop ==
    /\ wpc = "pop"
    /\ Due(TASK_HEAP, now)
    /\ wid' = Head(TASK_HEAP)[2]
    /\ wfire' = Head(TASK_HEAP)[1]
    /\ TASK_HEAP' = Tail(TASK_HEAP)
    /\ wpc' = "load"
    /\ UNCHANGED <<lockVars, now, tasks, staged, nrid, wobj, nmsg, nrestart, pollVars>>
    /\ quiet' = "no"

\* a worker that skipped the status test of line 196
EligibleAnyStatus(rows, i) == i \in DOMAIN rows

\* a worker whose status test of line 196 let a sent request through
EligibleOrSent(rows, i) ==
    i \in DOMAIN rows /\ rows[i].status \in {"pending", "failed", "sent"}

\* a worker whose status test of line 196 only turned replied requests away
EligibleUnlessReplied(rows, i) == i \in DOMAIN rows /\ rows[i].status # "replied"

\* if not task or task.status not in ("pending", "failed")
Eligible(rows, i) == i \in DOMAIN rows /\ rows[i].status \in {"pending", "failed"}

\* lines 194-197: load the row; discard the entry of a missing or
\* ineligible request
WorkerLoad ==
    /\ wpc = "load"
    /\ IF Eligible(tasks, wid)
       THEN /\ wobj' = tasks[wid]
            /\ wpc' = "mark"
            /\ tasks' = [tasks EXCEPT ![wid].pops = @ + 1]
            /\ UNCHANGED wid
       ELSE /\ wpc' = "pop"
            /\ wid' = 0
            /\ UNCHANGED <<wobj, tasks>>
    /\ UNCHANGED <<lockVars, wfire, now, staged, nrid, TASK_HEAP, nmsg, nrestart, pollVars>>
    /\ quiet' = "no"

\* lines 200-201: task.status = "sending"; session.commit().  The UPDATE
\* of a row that is gone raises StaleDataError; the handlers of lines
\* 206-212 then read the expired object, raise again and end the thread
WorkerMark ==
    /\ wpc = "mark"
    /\ WriteLockFree
    /\ IF wid \in DOMAIN tasks
       THEN /\ tasks' = [tasks EXCEPT ![wid] =
                           UpdateRow(@, wobj, [wobj EXCEPT !.status = "sending"])]
            /\ wpc' = "send"
            /\ UNCHANGED <<wid, wobj>>
       ELSE /\ wpc' = "dead"
            /\ wid' = 0
            /\ wobj' = NoObj
            /\ UNCHANGED tasks
    /\ UNCHANGED <<lockVars, wfire, now, staged, nrid, TASK_HEAP, nmsg, nrestart, pollVars>>
    /\ quiet' = "no"

\* line 202, the arguments: the commit expired the object, task.account
\* reloads the row as it is now; then _send_via_smtp generates the
\* Message-ID (line 159) and the call is in progress
WorkerSend ==
    /\ wpc = "send"
    /\ IF wid \in DOMAIN tasks
       THEN /\ wobj' = tasks[wid]
            /\ nmsg' = nmsg + 1
            /\ wpc' = "smtp"
            /\ UNCHANGED wid
       ELSE /\ wpc' = "dead"
            /\ wid' = 0
            /\ wobj' = NoObj
            /\ UNCHANGED nmsg
    /\ UNCHANGED <<lockVars, wfire, now, tasks, staged, nrid, TASK_HEAP, nrestart, pollVars>>
    /\ quiet' = "no"

\* a worker that dropped the assignment of line 203
SentObjNoMsgId(obj, msgid) ==
    [obj EXCEPT !.status = "sent", !.last_error = NoError, !.attempts = @ + 1]

\* lines 203-205 and 211: the attributes after a successful call
SentObj(obj, msgid) ==
    [obj EXCEPT !.message_id = msgid, !.status = "sent",
                !.last_error = NoError, !.attempts = @ + 1]

\* a worker that stored a Message-ID after a failed call too
FailedObjStamped(obj, err) ==
    [obj EXCEPT !.status = "failed", !.last_error = err, !.attempts = @ + 1,
                !.message_id = obj.attempts + 1]

\* lines 207-208 and 211: the attributes after a failed call
FailedObj(obj, err) ==
    [obj EXCEPT !.status = "failed", !.last_error = err, !.attempts = @ + 1]

\* history: the call that returned was a successful call for request rid
Delivered(row, rid, ok) ==
    IF ok /\ row.rid = rid THEN [row EXCEPT !.sends = @ + 1] ELSE row

\* line 212: session.commit() of the finally clause; on a row that is gone
\* the UPDATE raises StaleDataError out of the finally clause
WorkerCommit(new, ok) ==
    /\ WriteLockFree
    /\ IF wid \in DOMAIN tasks
       THEN /\ tasks' = [tasks EXCEPT ![wid] =
                           Delivered(UpdateRow(@, wobj, new), wobj.rid, ok)]
            /\ wpc' = "pop"
       ELSE /\ wpc' = "dead"
            /\ UNCHANGED tasks
    /\ wid' = 0
    /\ wobj' = NoObj

\* lines 202-205, 210-212: _send_via_smtp returns the Message-ID
WorkerSent ==
    /\ wpc = "smtp"
    /\ WorkerCommit(SentObj(wobj, nmsg), TRUE)
    /\ UNCHANGED <<lockVars, wfire, now, staged, nrid, TASK_HEAP, nmsg, nrestart, pollVars>>
    /\ quiet' = "no"

\* a worker that calls _send_via_smtp again when it raised
WorkerFailedRetry ==
    /\ wpc = "smtp"
    /\ wpc' = "send"
    /\ UNCHANGED <<lockVars, wfire, wid, wobj, tasks, now, staged, nrid, TASK_HEAP, nmsg,
                   nrestart, pollVars>>
    /\ quiet' = "no"

\* lines 206-212: _send_via_smtp raises
WorkerFailed ==
    /\ wpc = "smtp"
    /\ WorkerCommit(FailedObj(wobj, SmtpError), FALSE)
    /\ UNCHANGED <<lockVars, wfire, now, staged, nrid, TASK_HEAP, nmsg, nrestart, pollVars>>
    /\ quiet' = "no"

(* ------------------------------ inbound mail --------------------------- *)
\* the messages that can be appended to the mailboxes box when n Message-IDs
\* have been generated: a message lies in the mailbox of one account, has
\* its own Message-ID (mid; fresh, or that of an earlier message), an
\* In-Reply-To header (irt; NoMsgId when absent, else a Message-ID some
\* transport call generated) and a Date header that parses or does not
Arrivals(box, n) ==
    [acct : Accounts, mid : 1..(Len(box) + 1), irt : {NoMsgId} \cup (1..n),
     date_ok : BOOLEAN, missed : {FALSE}]

\* a message arrives
Deliver ==
    /\ Len(mail) < MaxMail
    /\ \E m \in Arrivals(mail, nmsg) : mail' = Append(mail, m)
    /\ quiet' = "no"
    /\ UNCHANGED <<lockVars, gemini_api_key, now, tasks, staged, nrid, TASK_HEAP, workerVars, nmsg, nrestart,
                   inbox, accts, sessVars>>

(* ------------------------------ the poller ----------------------------- *)
\* imap.search (line 231): the uids of the mailbox of account a, ascending
RECURSIVE Uids(_, _, _)
Uids(box, a, k) ==
    IF k > Len(box) THEN <<>>
    ELSE (IF box[k].acct = a THEN <<k>> ELSE <<>>) \o Uids(box, a, k + 1)

\* history kept by PollAdvance: see quiet
QuietAfter(q, start, end, ok) ==
    IF end THEN (IF q = "pass" THEN "yes" ELSE q)
    ELSE IF q = "yes" THEN "yes"
    ELSE IF ~ok THEN "no"
    ELSE IF start THEN "pass"
    ELSE q

\* the account after index k in the list of the pass, 0 when there is none
NextAccount(list, k) ==
    LET later == {j \in (k + 1)..Len(AccountOrder) : AccountOrder[j] \in list}
    IN  IF later = {} THEN 0 ELSE CHOOSE j \in later : \A i \in later : j <= i

\* an attribute of `account` is read (lines 225, 280, 285): an expired
\* object reloads its row and raises ObjectDeletedError when the row is gone
Detached(expired, a, stored) == expired /\ a \notin stored

\* a pass that goes through the accounts of every user
PolledWhatever(stored, key) == stored

\* lines 218-220: the accounts a pass goes through are those of the users
\* whose gemini_api_key is set; a user without one is skipped with all
\* their accounts
Polled(stored, key) == IF key THEN stored ELSE {}

\* lines 216-233 and 283-286: the poller leaves a mailbox (or its wait) and
\* goes to the next account of the pass: login and search succeed, or raise
\* and the except clause of line 284 goes on; after the last account the
\* session closes, dropping what it had not flushed.  When account.email
\* itself raises (line 225), the print of line 285 raises again, out of the
\* except clause and out of the loop: the thread ends
PollAdvance ==
    /\ ppc = "wait" \/ (ppc = "scan" /\ ptodo = <<>>)
    /\ LET list == IF ppc = "wait" THEN Polled(accts, gemini_api_key) ELSE plist
           expired == ppc = "scan" /\ pexpired
           k == NextAccount(list, pacct)
       IN  IF k = 0
           THEN /\ ppc' = "wait"
                /\ pacct' = 0
                /\ ptodo' = <<>>
                /\ pdirty' = {}
                /\ plist' = {}
                /\ pexpired' = FALSE
                /\ quiet' = QuietAfter(quiet, FALSE, TRUE, TRUE)
           ELSE IF Detached(expired, AccountOrder[k], accts)
           THEN /\ ppc' = "dead"
                /\ pacct' = 0
                /\ ptodo' = <<>>
                /\ pdirty' = {}
                /\ plist' = {}
                /\ pexpired' = FALSE
                /\ quiet' = "no"
           ELSE /\ ppc' = "scan"
                /\ pacct' = k
                /\ plist' = list
                /\ pexpired' = expired
                /\ \E ok \in BOOLEAN :
                     /\ ptodo' = IF ok THEN Uids(mail, AccountOrder[k], 1) ELSE <<>>
                     /\ quiet' = QuietAfter(quiet, ppc = "wait", FALSE, ok)
                /\ UNCHANGED pdirty
    /\ UNCHANGED <<lockVars, gemini_api_key, pmatch, now, tasks, staged, nrid, TASK_HEAP, workerVars, nmsg, nrestart,
                   mail, inbox, accts>>

\* line 241: an Inbox row with this message_id exists
\* a lookup that leaves out the requests already replied
MatchesUnlessReplied(rows, irt) ==
    {i \in DOMAIN rows : rows[i].message_id = irt /\ rows[i].status # "replied"}

\* a poller that also takes for seen what a lookup has missed before
SeenOrMissed(rows, mid) ==
    \/ \E k \in 1..Len(rows) : rows[k].message_id = mid
    \/ \E k \in 1..Len(mail) : mail[k].mid = mid /\ mail[k].missed

Seen(rows, mid) == \E k \in 1..Len(rows) : rows[k].message_id = mid

\* a lookup that ignored the In-Reply-To value
MatchesAnySent(rows, irt) == {i \in DOMAIN rows : rows[i].message_id # NoMsgId}

\* line 251: the tasks whose message_id equals the In-Reply-To value
Matches(rows, irt) == {i \in DOMAIN rows : rows[i].message_id = irt}

\* line 254: task_match.status = "replied" marks the object dirty when the
\* value changes
Dirtied(rows, i) == IF rows[i].status # "replied" THEN {i} ELSE {}

\* a flush that also clears the Message-ID of the tasks it marks
\* a flush that writes the whole object back, with the attempt counted
RepliedAndCounted(rows, dirty) ==
    [i \in DOMAIN rows |->
        IF i \in dirty
        THEN [rows[i] EXCEPT !.status = "replied", !.attempts = rows[i].attempts + 1]
        ELSE rows[i]]

RepliedUnlinked(rows, dirty) ==
    [i \in DOMAIN rows |->
        IF i \in dirty THEN [rows[i] EXCEPT !.status = "replied", !.message_id = NoMsgId]
        ELSE rows[i]]

\* the UPDATE of the flush: status = 'replied' for every dirty task
Replied(rows, dirty) ==
    [i \in DOMAIN rows |->
        IF i \in dirty THEN [rows[i] EXCEPT !.status = "replied"] ELSE rows[i]]

\* history kept by PollMessage: see mail
LookedUp(box, k, rows, found) ==
    IF ~Seen(rows, box[k].mid) /\ box[k].irt # NoMsgId /\ found = {}
    THEN [box EXCEPT ![k].missed = TRUE]
    ELSE box

\* lines 234-285: one message of the mailbox.  The message is skipped
\* (lines 241, 249, 253), or it matches a task: the status is set in the
\* session, the headers are parsed, and the Inbox row and every dirty task
\* are committed (line 282).  A Date that does not parse raises (line 257)
\* and an UPDATE of a deleted row raises StaleDataError and rolls back: the
\* except clause of line 284 leaves the mailbox.  When the account's row is
\* gone and the object expired, account.id (line 280) raises and so does
\* the print of the except clause: the thread ends
PollMessage ==
    /\ ppc = "scan"
    /\ ptodo # <<>>
    /\ pmatch = 0
    /\ WriteLockFree
    /\ LET m == mail[Head(ptodo)]
           found == Matches(tasks, m.irt)
       IN  IF Seen(inbox, m.mid) \/ m.irt = NoMsgId \/ found = {}
           THEN /\ ptodo' = Tail(ptodo)
                /\ mail' = LookedUp(mail, Head(ptodo), inbox, found)
                /\ UNCHANGED <<tasks, inbox, ppc, pacct, pdirty, plist, pexpired, quiet>>
           ELSE LET i == CHOOSE x \in found : \A y \in found : x <= y
                    dirty == pdirty \cup Dirtied(tasks, i)
                    rows == [tasks EXCEPT ![i].matched = TRUE]
                    stale == m.date_ok /\ ~(dirty \subseteq DOMAIN tasks)
                IN  IF Detached(pexpired \/ stale, AccountOrder[pacct], accts)
                    THEN /\ ppc' = "dead"
                         /\ pacct' = 0
                         /\ ptodo' = <<>>
                         /\ pdirty' = {}
                         /\ plist' = {}
                         /\ pexpired' = FALSE
                         /\ tasks' = rows
                         /\ quiet' = "no"
                         /\ UNCHANGED <<mail, inbox>>
                    ELSE IF ~m.date_ok
                    THEN /\ pdirty' = dirty
                         /\ ptodo' = <<>>
                         /\ tasks' = rows
                         /\ UNCHANGED <<mail, inbox, ppc, pacct, plist, pexpired, quiet>>
                    ELSE IF ~stale
                    THEN /\ tasks' = Replied(rows, dirty)
                         /\ inbox' = Append(inbox, [message_id |-> m.mid,
                                                    in_reply_to |-> m.irt, task_id |-> i])
                         /\ pdirty' = {}
                         /\ ptodo' = Tail(ptodo)
                         /\ pexpired' = TRUE
                         /\ UNCHANGED <<mail, ppc, pacct, plist, quiet>>
                    ELSE /\ pdirty' = {}
                         /\ ptodo' = <<>>
                         /\ tasks' = rows
                         /\ pexpired' = TRUE
                         /\ UNCHANGED <<mail, inbox, ppc, pacct, plist, quiet>>
    /\ UNCHANGED <<lockVars, gemini_api_key, pmatch, now, staged, nrid, TASK_HEAP, workerVars, nmsg, nrestart,
                   accts>>

(* ------------------------------ restart -------------------------------- *)
\* initialize_app, lines 1143-1146: the rows the rebuild pushes
\* a rebuild that does not look at send_at
RequeuedAnyTime(rows, t) ==
    {i \in DOMAIN rows : rows[i].status \in {"pending", "failed"}}

\* a rebuild that takes up the rows left in sending as well
RequeuedAlsoSending(rows, t) ==
    {i \in DOMAIN rows : rows[i].status \in {"pending", "failed", "sending"} /\ rows[i].send_at > t}

RequeuedNotPast(rows, t) ==
    {i \in DOMAIN rows : rows[i].status \in {"pending", "failed"} /\ rows[i].send_at >= t}

Requeued(rows, t) ==
    {i \in DOMAIN rows : rows[i].status \in {"pending", "failed"} /\ rows[i].send_at > t}

\* the process ends (at any point) and starts again: the heap and the
\* threads' state are lost, open transactions are rolled back, and
\* initialize_app rebuilds the heap and starts a fresh worker
Restart ==
    /\ nrestart < MaxRestarts
    /\ nrestart' = nrestart + 1
    /\ staged' = <<>>
    /\ TASK_HEAP' = PushAll(<<>>, tasks, Requeued(tasks, now))
    /\ wpc' = "pop"
    /\ wid' = 0
    /\ wfire' = NoFire
    /\ wobj' = NoObj
    /\ ppc' = "wait"
    /\ pacct' = 0
    /\ ptodo' = <<>>
    /\ pdirty' = {}
    /\ plist' = {}
    /\ pexpired' = FALSE
    /\ pmatch' = 0
    /\ quiet' = "no"
    /\ UNCHANGED <<lockVars, gemini_api_key, now, tasks, nrid, nmsg, mail, inbox, accts>>

(* --------------------------- specifications ---------------------------- *)
\* the dispatch side: clock, creation, deletion, worker, restart
DispatchNext ==
    \/ Tick
    \/ CreateFlush
    \/ CreateCommit
    \/ CreateRollback
    \/ DeleteTask
    \/ WorkerPop
    \/ WorkerLoad
    \/ WorkerMark
    \/ WorkerSend
    \/ WorkerSent
    \/ WorkerFailed
    \/ Restart

\* the reconciliation side
PollNext ==
    \/ PollAdvance
    \/ PollMessage

Next ==
    \/ DispatchNext
    \/ DeleteAccount
    \/ Deliver
    \/ PollNext

\* the whole engine
Spec == Init /\ [][Next]_vars

\* the engine while no mail arrives: the poller finds nothing to record
DispatchSpec == Init /\ [][DispatchNext]_vars


\* a request the worker has delivered: lines 200-212 on success
SentTask(rid, msgid) ==
    [NewTask(rid, 0) EXCEPT !.status = "sent", !.attempts = 1, !.message_id = msgid,
                            !.pops = 1, !.sends = 1]

\* the mailboxes of n messages
RECURSIVE Boxes(_, _)
Boxes(n, ids) ==
    IF n = 0 THEN {<<>>}
    ELSE UNION {{Append(b, m) : m \in Arrivals(b, ids)} : b \in Boxes(n - 1, ids)}

\* the engine at rest: every request has been delivered, the mailboxes
\* hold any MaxBox messages, nothing is recorded yet
RepollInit ==
    /\ now = 0
    /\ tasks = [i \in 1..MaxTasks |-> SentTask(i, i)]
    /\ staged = <<>>
    /\ nrid = MaxTasks
    /\ TASK_HEAP = <<>>
    /\ wpc = "pop"
    /\ wid = 0
    /\ wfire = NoFire
    /\ wobj = NoObj
    /\ nmsg = MaxTasks
    /\ nrestart = 0
    /\ mail \in Boxes(MaxBox, MaxTasks)
    /\ inbox = <<>>
    /\ ppc = "wait"
    /\ pacct = 0
    /\ ptodo = <<>>
    /\ pdirty = {}
    /\ accts = Accounts
    /\ gemini_api_key = TRUE
    /\ plist = {}
    /\ pexpired = FALSE
    /\ pmatch = 0
    /\ quiet = "no"
    /\ LockIdle

\* the poller alone, pass after pass over mailboxes that get no new mail
RepollSpec == RepollInit /\ [][PollNext]_vars

\* a request whose only dispatch failed: lines 200-212 on failure
FailedTask(rid) ==
    [NewTask(rid, 0) EXCEPT !.status = "failed", !.attempts = 1,
                            !.last_error = SmtpError, !.pops = 1]

\* the engine at rest with mail waiting: every request has been delivered
\* but the last, whose transport call failed (its Message-ID is stored
\* nowhere), and the mailboxes hold any MaxMail + 1 messages
PollInit ==
    /\ now = 0
    /\ tasks = [i \in 1..MaxTasks |->
                   IF i < MaxTasks THEN SentTask(i, i) ELSE FailedTask(i)]
    /\ staged = <<>>
    /\ nrid = MaxTasks
    /\ TASK_HEAP = <<>>
    /\ wpc = "pop"
    /\ wid = 0
    /\ wfire = NoFire
    /\ wobj = NoObj
    /\ nmsg = MaxTasks
    /\ nrestart = 0
    /\ mail \in Boxes(MaxMail + 1, MaxTasks)
    /\ inbox = <<>>
    /\ ppc = "wait"
    /\ pacct = 0
    /\ ptodo = <<>>
    /\ pdirty = {}
    /\ accts = Accounts
    /\ gemini_api_key = TRUE
    /\ plist = {}
    /\ pexpired = FALSE
    /\ pmatch = 0
    /\ quiet = "no"
    /\ LockIdle

\* the poller, pass after pass, while the CRUD layer deletes requests and
\* accounts
PollCrudNext ==
    \/ PollAdvance
    \/ PollMessage
    \/ DeleteTask
    \/ DeleteAccount

PollCrudSpec == PollInit /\ [][PollCrudNext]_vars

\* the poller alone, pass after pass over that mail
PollSpec == PollInit /\ [][PollNext]_vars

\* the poller over the same stores while the user edits the settings
KeyNext ==
    \/ PollAdvance
    \/ PollMessage
    \/ Settings

\* line 215 and line 286: STOP_EVENT is never set, so the poller thread goes
\* on to its next step for ever; nothing makes the user save the settings
KeyLiveSpec ==
    /\ PollInit
    /\ [][KeyNext]_vars
    /\ WF_vars(PollAdvance)
    /\ WF_vars(PollMessage)

\* the dispatch side under the claim's assumptions of eventual dispatch: no
\* restart, no deletion, no upload that fails; the worker thread keeps
\* running, every transport call returns, every request of a handler ends
\* and time passes
LiveNext ==
    \/ Tick
    \/ CreateFlush
    \/ CreateCommit
    \/ WorkerPop
    \/ WorkerLoad
    \/ WorkerMark
    \/ WorkerSend
    \/ WorkerSent
    \/ WorkerFailed

LiveSpec ==
    /\ Init
    /\ [][LiveNext]_vars
    /\ WF_vars(Tick)
    /\ WF_vars(CreateCommit)
    /\ WF_vars(WorkerPop)
    /\ WF_vars(WorkerLoad)
    /\ WF_vars(WorkerMark)
    /\ WF_vars(WorkerSend)
    /\ WF_vars(WorkerSent \/ WorkerFailed)

(* ------------------------------ properties ----------------------------- *)
\* the row of send-request r is persisted with one of the statuses S
Persisted(r, S) == \E i \in DOMAIN tasks : tasks[i].rid = r /\ tasks[i].status \in S

\* C1: no early dispatch -- whenever a transport call is in progress, the
\* clock has reached the stored send_at of the request being sent
C1_NoEarlyDispatch == wpc = "smtp" => wobj.send_at <= now

\* C2: at most one successful transport call per send-request, however
\* many entries the heap holds for its id
C2_AtMostOneSend == \A i \in DOMAIN tasks : tasks[i].sends <= 1

\* C2, the case: a second entry of a request already sent has been popped
C2_Witness ==
    /\ wpc = "load"
    /\ wid \in DOMAIN tasks
    /\ tasks[wid].status = "sent"
    /\ tasks[wid].sends = 1

\* C3: eventual dispatch -- a request persisted as pending eventually is
\* persisted as sent or failed
C3_EventualDispatch ==
    \A r \in 1..MaxTasks :
        Persisted(r, {"pending"}) ~> Persisted(r, {"sent", "failed"})

\* C4: attempt counting -- between the cycles of a worker that no restart
\* has interrupted, the attempts of every request equal the number of pops
\* that found it eligible
C4_AttemptsArePops ==
    (wpc = "pop" /\ nrestart = 0) =>
        \A i \in DOMAIN tasks :
            tasks[i].attempts = tasks[i].pops

\* C5: replied iff matched -- when the passes of a poller that no restart
\* has interrupted have run to their end, a request has status replied
\* exactly if the poller fetched a message whose In-Reply-To is the
\* request's message_id
C5_RepliedIffMatched ==
    (ppc = "wait" /\ nrestart = 0) =>
        \A i \in DOMAIN tasks : (tasks[i].status = "replied") <=> tasks[i].matched

\* C6: idempotent re-poll -- once a pass over the mailboxes has ended, a
\* further pass over the same mailboxes adds no inbox row and changes no
\* status
C6_IdempotentRepoll ==
    [][(quiet = "yes" /\ quiet' = "yes") =>
         /\ inbox' = inbox
         /\ \A i \in DOMAIN tasks : tasks'[i].status = tasks[i].status]_vars

\* C7: the worker survives a transport failure -- after _send_via_smtp
\* raised, the worker is back at the head of its loop
C7_SurvivesTransportFailure == [][WorkerFailed => wpc' = "pop"]_vars

\* C8: no error ends a background loop -- the worker thread never
\* terminates
C8_WorkerNeverDies == wpc # "dead"

\* C9: no automatic retry -- no transport call is made for a request that
\* has failed before
C9_NoRetry == wpc = "smtp" => wobj.last_error # SmtpError

\* C10: successful dispatch post-state -- when the transport call of a
\* request with attempts 0 returns and the request is still stored, its row
\* has status sent, the returned Message-ID, no last_error and attempts 1
C10_SentPostState ==
    [][(/\ WorkerSent
        /\ wobj.attempts = 0
        /\ wid \in DOMAIN tasks
        /\ tasks[wid].rid = wobj.rid)
       => /\ tasks'[wid].status = "sent"
          /\ tasks'[wid].message_id = nmsg
          /\ tasks'[wid].message_id # NoMsgId
          /\ tasks'[wid].last_error = NoError
          /\ tasks'[wid].attempts = 1]_vars

\* C10, the case: a first dispatch has succeeded and is stored
C10_Witness ==
    \E i \in DOMAIN tasks :
        /\ tasks[i].status = "sent"
        /\ tasks[i].attempts = 1
        /\ tasks[i].message_id # NoMsgId
        /\ tasks[i].sends = 1

\* the heap holds an entry for task id i
Queued(h, i) == \E k \in 1..Len(h) : h[k][2] = i

\* C11: failed dispatch post-state -- when the transport call of a request
\* with attempts 0 raises and the request is still stored, its row has
\* status failed, the error text, attempts 1 and no message_id, and the
\* heap holds no entry for it
C11_FailedPostState ==
    [][(/\ WorkerFailed
        /\ wobj.attempts = 0
        /\ wid \in DOMAIN tasks
        /\ tasks[wid].rid = wobj.rid)
       => /\ tasks'[wid].status = "failed"
          /\ tasks'[wid].last_error = SmtpError
          /\ tasks'[wid].attempts = 1
          /\ tasks'[wid].message_id = NoMsgId
          /\ ~Queued(TASK_HEAP', wid)]_vars

\* message k carries an In-Reply-To value that no stored request has as its
\* message_id
Unmatched(k) ==
    /\ mail[k].irt # NoMsgId
    /\ \A i \in DOMAIN tasks : tasks[i].message_id # mail[k].irt

\* C12: unmatched reply -- when the poller handles a message whose
\* In-Reply-To matches no request, no row of tasks or inbox changes, the
\* poller stays in the mailbox and goes on to its next message
C12_UnmatchedReply ==
    [][(PollMessage /\ Unmatched(Head(ptodo)))
       => /\ tasks' = tasks
          /\ inbox' = inbox
          /\ ppc' = "scan"
          /\ pacct' = pacct
          /\ ptodo' = Tail(ptodo)]_vars

\* C12, the case: the poller is at a message of a mailbox after it has
\* handled an unmatched one of the same mailbox
C12_Witness ==
    /\ ppc = "scan"
    /\ ptodo # <<>>
    /\ \E j \in 1..Len(mail) :
         /\ j < Head(ptodo)
         /\ mail[j].acct = AccountOrder[pacct]
         /\ Unmatched(j)
         /\ ~Seen(inbox, mail[j].mid)

\* the values of Task.status and the changes the engine is meant to make
Statuses == {"pending", "sending", "sent", "failed", "replied"}
StatusChanges ==
    {<<"pending", "sending">>, <<"failed", "sending">>, <<"sending", "sent">>,
     <<"sending", "failed">>, <<"sent", "replied">>}

\* C13: status state machine -- the stored status of a request is one of
\* the five values, and every step that changes it makes one of the changes
\* pending->sending, failed->sending, sending->sent, sending->failed,
\* sent->replied
C13_StatusMachine ==
    [][\A i \in DOMAIN tasks \cap DOMAIN tasks' :
         /\ tasks'[i].status \in Statuses
         /\ (tasks'[i].rid = tasks[i].rid /\ tasks'[i].status # tasks[i].status)
              => <<tasks[i].status, tasks'[i].status>> \in StatusChanges]_vars

\* entry e is in the heap and no entry has a smaller fire-time
Earliest(h, e) ==
    /\ \E k \in 1..Len(h) : h[k] = e
    /\ \A k \in 1..Len(h) : e[1] <= h[k][1]

\* the heap without its first entry equal to e
RECURSIVE Without(_, _)
Without(h, e) ==
    IF h = <<>> THEN <<>>
    ELSE IF Head(h) = e THEN Tail(h)
    ELSE <<Head(h)>> \o Without(Tail(h), e)

\* C14: pop-if-due -- the worker's pop takes an entry exactly when the
\* smallest fire-time in the heap is <= now: the pop is possible then, the
\* entry it takes has the smallest fire-time, which is <= now, only that
\* entry leaves the heap, and no other step of the running process removes
\* an entry
C14_PopIfDue ==
    /\ []((wpc = "pop" /\ \E k \in 1..Len(TASK_HEAP) : TASK_HEAP[k][1] <= now)
            => ENABLED WorkerPop)
    /\ [][(wpc = "pop" /\ wpc' = "load")
            => \E k \in 1..Len(TASK_HEAP) :
                  /\ Earliest(TASK_HEAP, TASK_HEAP[k])
                  /\ TASK_HEAP[k][1] <= now
                  /\ wid' = TASK_HEAP[k][2]
                  /\ TASK_HEAP' = Without(TASK_HEAP, TASK_HEAP[k])]_vars
    /\ [][(Len(TASK_HEAP') < Len(TASK_HEAP) /\ nrestart' = nrestart)
            => (wpc = "pop" /\ wpc' = "load")]_vars

\* C14, the case: the worker has popped a due entry and has left an entry
\* that is not due in the heap
C14_Witness ==
    /\ wpc = "load"
    /\ TASK_HEAP # <<>>
    /\ \A k \in 1..Len(TASK_HEAP) : TASK_HEAP[k][1] > now

\* the entry the worker has popped is stale: no request with its id is
\* stored, or the stored one is neither pending nor failed
Stale ==
    \/ wid \notin DOMAIN tasks
    \/ tasks[wid].status \notin {"pending", "failed"}

\* C15: stale entries are discarded without effect -- when the worker has
\* popped a stale entry, its next step makes no transport call, changes no
\* row, and takes it back to the pop
C15_StaleDiscarded ==
    [][(wpc = "load" /\ wpc' # "load" /\ nrestart' = nrestart /\ Stale)
       => /\ wpc' = "pop"
          /\ nmsg' = nmsg
          /\ tasks' = tasks
          /\ staged' = staged
          /\ inbox' = inbox]_vars

\* C15, the case: the worker has popped the entry of a request that is no
\* longer stored, while a sent request is stored
C15_Witness ==
    /\ wpc = "load"
    /\ wid \notin DOMAIN tasks
    /\ staged = <<>>
    /\ \E i \in DOMAIN tasks : tasks[i].status = "sent"

\* C16: per-account isolation -- whatever fails at one account, the poller
\* thread goes on: it is in a mailbox of the pass or waits for the next pass
C16_PollerGoesOn == ppc \in {"wait", "scan"}

\* the positions of the heap h that hold an entry for the request id i
EntriesOf(h, i) == {k \in 1..Len(h) : h[k][2] = i}

\* C17: startup rebuild -- right after the rebuild at process start the heap
\* holds exactly one entry (fire-time, id) for every stored request that is
\* pending or failed with a fire-time strictly in the future, and no entry
\* for any other request
C17_StartupRebuild ==
    [][Restart =>
         /\ \A i \in DOMAIN tasks :
              IF tasks[i].status \in {"pending", "failed"} /\ tasks[i].send_at > now
              THEN /\ Cardinality(EntriesOf(TASK_HEAP', i)) = 1
                   /\ \A k \in EntriesOf(TASK_HEAP', i) :
                        TASK_HEAP'[k] = <<tasks[i].send_at, i>>
              ELSE EntriesOf(TASK_HEAP', i) = {}
         /\ \A k \in 1..Len(TASK_HEAP') : TASK_HEAP'[k][2] \in DOMAIN tasks]_vars

\* after a restart the heap holds an entry while a stored request that is
\* neither pending nor failed, and one whose fire-time has passed, have none
C17_Witness ==
    /\ nrestart >= 1
    /\ wpc = "pop"
    /\ TASK_HEAP = PushAll(<<>>, tasks, Requeued(tasks, now))
    /\ TASK_HEAP # <<>>
    /\ \E i \in DOMAIN tasks :
         /\ ~Queued(TASK_HEAP, i)
         /\ \/ tasks[i].status \notin {"pending", "failed"}
            \/ tasks[i].send_at <= now

\* C18: the correlation identifier is set at most once -- once a request's
\* message_id is non-empty, no step (worker, poller, restart, or any other)
\* changes or clears it as long as the request is stored
C18_MsgIdSetOnce ==
    [][\A i \in DOMAIN tasks :
         (/\ tasks[i].message_id # NoMsgId
          /\ i \in DOMAIN tasks'
          /\ tasks'[i].rid = tasks[i].rid)
         => tasks'[i].message_id = tasks[i].message_id]_vars

\* after a restart, a request with a Message-ID has been marked replied by
\* the poller while the worker is in the transport call of another request
C18_Witness ==
    /\ nrestart >= 1
    /\ wpc = "smtp"
    /\ \E i \in DOMAIN tasks :
         /\ tasks[i].status = "replied"
         /\ tasks[i].message_id # NoMsgId
         /\ i # wid

\* C19: at most one delivery in flight per request -- while a transport call
\* is in progress the worker starts no other call and takes no other entry
\* from the heap, and a dispatch goes on to the transport call only for a
\* request it found pending or failed, so never for one found in sending
C19_OneInFlight ==
    /\ [][(wpc = "smtp" /\ nrestart' = nrestart)
            => /\ nmsg' = nmsg
               /\ Len(TASK_HEAP') >= Len(TASK_HEAP)
               /\ wpc' \in {"smtp", "pop", "dead"}]_vars
    /\ [][(wpc = "load" /\ wpc' = "mark")
            => /\ wid \in DOMAIN tasks
               /\ tasks[wid].status \in {"pending", "failed"}]_vars

\* a transport call is in progress for a request in sending while a second
\* entry for the same request waits, due, in the heap
C19_Witness ==
    /\ wpc = "smtp"
    /\ wid \in DOMAIN tasks
    /\ tasks[wid].rid = wobj.rid
    /\ tasks[wid].status = "sending"
    /\ \E k \in 1..Len(TASK_HEAP) : TASK_HEAP[k][2] = wid /\ TASK_HEAP[k][1] <= now

(* --------------------------- the heap's lock --------------------------- *)
\* The heap operations in single steps.  heappush and heappop read the list
\* and write it back changed; a thread is at "acquire" before the with
\* statement, at "read" and "write" inside it, at "release" at its end.
\* The clock stands at 0: the entries with send_at = 0 are due, the others
\* are not.
\* the calls of _push_task_heap a behaviour makes are at most MaxCalls
MaxCalls == 3

\* an entry is (send_at, id); these calls are made for rows with different ids
Entries == Times \X (1..MaxCalls)

\* history: the calls of _push_task_heap made so far
Calls == Len(pushed) + Cardinality({t \in Pushers : lpc[t] \in {"acquire", "read", "write"}})

dataVars == <<now, tasks, staged, nrid, workerVars, nmsg, nrestart, pollVars, quiet>>

\* a with statement that enters whether or not the lock is held
LockIgnored(lock) == TRUE

\* with HEAP_LOCK: the thread enters when no thread holds the lock
LockFree(lock) == lock = "none"

\* a call of _push_task_heap: by initialize_app before the threads run
\* (line 1146), by a creation handler afterwards (lines 884, 890, 1004)
PushCall ==
    /\ Calls < MaxCalls
    /\ \E t \in Pushers, send_at \in Times :
         /\ lpc[t] = "idle"
         /\ (t = "main") = ~WORKER_STARTED
         /\ lpc' = [lpc EXCEPT ![t] = "acquire"]
         /\ lent' = [lent EXCEPT ![t] = <<send_at, Calls + 1>>]
    /\ UNCHANGED <<dataVars, TASK_HEAP, HEAP_LOCK, WORKER_STARTED, lheap, pushed, popped>>

\* lines 1148-1153 and 1158: the rebuild is over, the worker and the
\* server's handler threads run from now on
StartThreads ==
    /\ ~WORKER_STARTED
    /\ lpc["main"] = "idle"
    /\ WORKER_STARTED' = TRUE
    /\ UNCHANGED <<dataVars, TASK_HEAP, HEAP_LOCK, lpc, lent, lheap, pushed, popped>>

\* line 186: the worker comes to its with statement
WorkerPeek ==
    /\ WORKER_STARTED
    /\ lpc["worker"] = "idle"
    /\ lpc' = [lpc EXCEPT !["worker"] = "acquire"]
    /\ UNCHANGED <<dataVars, TASK_HEAP, HEAP_LOCK, WORKER_STARTED, lent, lheap, pushed, popped>>

\* lines 151 and 186: with HEAP_LOCK
Acquire ==
    /\ LockFree(HEAP_LOCK)
    /\ \E t \in Threads :
         /\ lpc[t] = "acquire"
         /\ HEAP_LOCK' = t
         /\ lpc' = [lpc EXCEPT ![t] = "read"]
    /\ UNCHANGED <<dataVars, TASK_HEAP, WORKER_STARTED, lent, lheap, pushed, popped>>

\* lines 152 and 187: the operation reads the heap; the worker that finds
\* no due entry leaves the with statement
ReadHeap ==
    /\ \E t \in Threads :
         /\ lpc[t] = "read"
         /\ lheap' = [lheap EXCEPT ![t] = TASK_HEAP]
         /\ lpc' = [lpc EXCEPT ![t] =
                       IF t = "worker" /\ ~Due(TASK_HEAP, now) THEN "release" ELSE "write"]
    /\ UNCHANGED <<dataVars, TASK_HEAP, HEAP_LOCK, WORKER_STARTED, lent, pushed, popped>>

\* line 152: heappush writes the heap with the entry inserted
WriteInsert ==
    /\ \E t \in Pushers :
         /\ lpc[t] = "write"
         /\ TASK_HEAP' = _push_task_heap(lheap[t], lent[t][1], lent[t][2])
         /\ pushed' = Append(pushed, lent[t])
         /\ lpc' = [lpc EXCEPT ![t] = "release"]
    /\ UNCHANGED <<dataVars, HEAP_LOCK, WORKER_STARTED, lent, lheap, popped>>

\* line 188: heappop writes the heap without its first entry
WritePop ==
    /\ lpc["worker"] = "write"
    /\ TASK_HEAP' = Tail(lheap["worker"])
    /\ popped' = Append(popped, Head(lheap["worker"]))
    /\ lpc' = [lpc EXCEPT !["worker"] = "release"]
    /\ UNCHANGED <<dataVars, HEAP_LOCK, WORKER_STARTED, lent, lheap, pushed>>

\* the end of the with statement
Release ==
    /\ \E t \in Threads :
         /\ lpc[t] = "release"
         /\ lpc' = [lpc EXCEPT ![t] = "idle"]
         /\ lheap' = [lheap EXCEPT ![t] = <<>>]
         /\ lent' = IF t \in Pushers THEN [lent EXCEPT ![t] = NoEntry] ELSE lent
    /\ HEAP_LOCK' = "none"
    /\ UNCHANGED <<dataVars, TASK_HEAP, WORKER_STARTED, pushed, popped>>

\* the process starts: initialize_app is about to rebuild the heap
LockInit ==
    /\ now = 0
    /\ tasks = <<>>
    /\ staged = <<>>
    /\ nrid = 0
    /\ TASK_HEAP = <<>>
    /\ wpc = "pop"
    /\ wid = 0
    /\ wfire = NoFire
    /\ wobj = NoObj
    /\ nmsg = 0
    /\ nrestart = 0
    /\ mail = <<>>
    /\ inbox = <<>>
    /\ ppc = "wait"
    /\ pacct = 0
    /\ ptodo = <<>>
    /\ pdirty = {}
    /\ accts = Accounts
    /\ gemini_api_key = TRUE
    /\ plist = {}
    /\ pexpired = FALSE
    /\ pmatch = 0
    /\ quiet = "no"
    /\ HEAP_LOCK = "none"
    /\ WORKER_STARTED = FALSE
    /\ lpc = [t \in Threads |-> "idle"]
    /\ lent = [t \in Pushers |-> NoEntry]
    /\ lheap = [t \in Threads |-> <<>>]
    /\ pushed = <<>>
    /\ popped = <<>>

LockNext ==
    \/ PushCall
    \/ StartThreads
    \/ WorkerPeek
    \/ Acquire
    \/ ReadHeap
    \/ WriteInsert
    \/ WritePop
    \/ Release

LockSpec == LockInit /\ [][LockNext]_vars

\* the number of times the entry e occurs in the sequence q
Count(q, e) == Cardinality({k \in 1..Len(q) : q[k] = e})

\* C20: queue mutual exclusion -- a thread is inside an insert or a
\* peek-and-pop only while it holds the lock (so no two threads are), every
\* entry inserted is in the heap or has been popped, and no entry has been
\* popped more often than it was inserted
C20_QueueExclusion ==
    /\ \A t \in Threads : lpc[t] \in {"read", "write", "release"} => HEAP_LOCK = t
    /\ \A e \in Entries : Count(TASK_HEAP, e) + Count(popped, e) = Count(pushed, e)
    /\ \A e \in Entries : Count(popped, e) <= Count(pushed, e)

\* a handler is writing the heap while the other handler and the worker
\* wait for the lock, after the rebuild's entry has been popped
C20_Witness ==
    /\ \E s \in Handlers, t \in Handlers :
         /\ s # t
         /\ lpc[s] = "write"
         /\ lpc[t] = "acquire"
    /\ lpc["worker"] = "acquire"
    /\ popped # <<>>

\* C21: dispatch order -- the worker of a process takes entries in
\* non-decreasing order of their timestamps: an entry popped after another
\* has a timestamp that is not smaller
C21_DispatchOrder ==
    [][(WorkerPop /\ wfire # NoFire) => wfire <= wfire']_vars

\* C22: graceful shutdown -- the end of the process does not interrupt a
\* delivery: the request whose transport call was in progress is not left
\* with status sending
C22_GracefulShutdown ==
    [][(Restart /\ wpc = "smtp")
         => \A i \in DOMAIN tasks' :
              tasks'[i].rid = wobj.rid => tasks'[i].status # "sending"]_vars

\* C23: an entry dispatches only the request it was inserted for -- when the
\* worker starts a transport call because of the popped entry (wfire, wid),
\* wfire is the stored fire-time of the request that holds the id wid
C23_EntryOfItsRequest ==
    [][(wpc = "send" /\ wpc' = "smtp") => wfire = tasks[wid].send_at]_vars

\* C24: creation is atomic for the worker -- the worker never holds a popped
\* entry whose row a creation handler has flushed and not yet committed
C24_CreationAtomic == wpc = "load" => wid \notin DOMAIN staged

\* C25: reply recording is all-or-nothing -- every request persisted as
\* replied has a persisted inbox row linked to it
C25_RepliedHasInbound ==
    \A i \in DOMAIN tasks :
        tasks[i].status = "replied" => \E k \in 1..Len(inbox) : inbox[k].task_id = i

\* C26 as stated: once a dispatch attempt has been made for a request,
\* whatever its outcome, the request has a correlation identifier
C26_AssignedOnAttempt ==
    \A i \in DOMAIN tasks : tasks[i].attempts >= 1 => tasks[i].message_id # NoMsgId

\* C26 amended: the correlation identifier is assigned exactly when a
\* transport call succeeds -- a row without attempts has none, a row gets
\* one only in the step that ends a successful call, that step always
\* stores one, and the step that ends a failed call leaves the row's as it is
C26_AssignedOnSuccess ==
    /\ [](\A i \in DOMAIN tasks :
            tasks[i].attempts = 0 => tasks[i].message_id = NoMsgId)
    /\ [][\A i \in DOMAIN tasks \cap DOMAIN tasks' :
            (/\ tasks'[i].rid = tasks[i].rid
             /\ tasks[i].message_id = NoMsgId
             /\ tasks'[i].message_id # NoMsgId)
            => (WorkerSent /\ wid = i)]_vars
    /\ [][(WorkerSent /\ wid \in DOMAIN tasks)
            => /\ tasks'[wid].message_id = nmsg
               /\ tasks'[wid].attempts >= 1]_vars
    /\ [][(WorkerFailed /\ wid \in DOMAIN tasks)
            => tasks'[wid].message_id = tasks[wid].message_id]_vars

\* a request whose only transport call failed is stored without a Message-ID
\* next to a request that was sent and has one
C26_Witness ==
    \E i \in DOMAIN tasks, j \in DOMAIN tasks :
        /\ tasks[i].status = "failed"
        /\ tasks[i].attempts = 1
        /\ tasks[i].message_id = NoMsgId
        /\ tasks[j].status = "sent"
        /\ tasks[j].message_id # NoMsgId

\* C27: sending is persisted before the transport call -- whenever a
\* transport call is in progress, the stored row of the request it is made
\* for has status sending
C27_SendingPersisted ==
    wpc = "smtp" =>
        \A i \in DOMAIN tasks : tasks[i].rid = wobj.rid => tasks[i].status = "sending"

\* C28 as stated: every popped entry results in exactly one transport call,
\* never zero -- the worker comes back to its pop only from a transport call
\* (looked at while no creation is in progress)
C28_ExactlyOneCall ==
    [][(wpc # "pop" /\ wpc' = "pop" /\ nrestart' = nrestart /\ staged = <<>>)
         => wpc = "smtp"]_vars

\* C28 amended: every popped entry results in at most one transport call --
\* a call is started only for a popped entry whose request the worker found
\* pending or failed, after the call the worker takes the next entry or
\* ends, and an entry whose request is missing or in another status
\* results in no call
C28_AtMostOneCall ==
    /\ [][nmsg' # nmsg => (nmsg' = nmsg + 1 /\ wpc = "send" /\ wpc' = "smtp")]_vars
    /\ [][(wpc = "smtp" /\ nrestart' = nrestart) => wpc' \in {"smtp", "pop", "dead"}]_vars
    /\ [][(wpc # "send" /\ wpc' = "send") => wpc = "mark"]_vars
    /\ [][(wpc # "mark" /\ wpc' = "mark") => (wpc = "load" /\ Eligible(tasks, wid))]_vars
    /\ [][(wpc # "load" /\ wpc' = "load") => WorkerPop]_vars
    /\ [][(WorkerLoad /\ ~Eligible(tasks, wid)) => (wpc' = "pop" /\ nmsg' = nmsg)]_vars

\* one transport call has been made and the worker holds a popped entry
\* that will result in none: its row is flushed and not committed
C28_Witness ==
    /\ nmsg = 1
    /\ wpc = "load"
    /\ ~Eligible(tasks, wid)
    /\ wid \in DOMAIN staged

\* the row i is in sending and the worker is not in a dispatch of it
Stuck(rows, i, pc, id) ==
    /\ i \in DOMAIN rows
    /\ rows[i].status = "sending"
    /\ ~(id = i /\ pc \in {"send", "smtp"})

\* C29: requests left in sending are never revisited -- the startup rebuild
\* inserts no entry for a row in sending, and a row in sending that the
\* worker is not dispatching is never changed by a step of the engine: it
\* stays as it is until a handler deletes it
C29_SendingNeverRevisited ==
    /\ [][Restart => \A i \in DOMAIN tasks :
                        tasks[i].status = "sending" => ~Queued(TASK_HEAP', i)]_vars
    /\ [][\A i \in DOMAIN tasks :
            (Stuck(tasks, i, wpc, wid) /\ i \in DOMAIN tasks')
            => /\ tasks'[i] = tasks[i]
               /\ Stuck(tasks', i, wpc', wid')]_vars

\* after a restart a request is left in sending while the new worker is in
\* the transport call of another request
C29_Witness ==
    /\ nrestart >= 1
    /\ wpc = "smtp"
    /\ \E i \in DOMAIN tasks : i # wid /\ tasks[i].status = "sending"

\* the row i is pending and overdue, no entry for its id is in the heap h,
\* the worker does not hold its id and the poller's session has no change
\* pending for it
Dropped(rows, i, h, t, pc, id, dirty) ==
    /\ i \in DOMAIN rows
    /\ rows[i].status = "pending"
    /\ rows[i].send_at <= t
    /\ ~Queued(h, i)
    /\ ~(id = i /\ pc \in {"load", "mark", "send", "smtp"})
    /\ i \notin dirty

\* C30: overdue requests are dropped by a restart -- the startup rebuild
\* inserts no entry for a pending row whose send_at is not in the future,
\* and a pending, overdue row without entry is never dispatched: as long as
\* it is stored it stays as it is and without entry
C30_OverdueDropped ==
    /\ [][Restart => \A i \in DOMAIN tasks :
                        (tasks[i].status = "pending" /\ tasks[i].send_at <= now)
                        => Dropped(tasks', i, TASK_HEAP', now', wpc', wid', pdirty')]_vars
    /\ [][\A i \in DOMAIN tasks :
            (Dropped(tasks, i, TASK_HEAP, now, wpc, wid, pdirty) /\ i \in DOMAIN tasks')
            => /\ tasks'[i] = tasks[i]
               /\ Dropped(tasks', i, TASK_HEAP', now', wpc', wid', pdirty')]_vars

\* after a restart a pending request whose send_at has passed has no entry
\* while the worker is in the transport call of another request
C30_Witness ==
    /\ nrestart >= 1
    /\ wpc = "smtp"
    /\ \E i \in DOMAIN tasks :
         /\ Dropped(tasks, i, TASK_HEAP, now, wpc, wid, pdirty)
         /\ tasks[i].send_at < now

Linked(k, i) ==
    \E r \in 1..Len(inbox) :
        /\ inbox[r].message_id = mail[k].mid
        /\ inbox[r].in_reply_to = mail[k].irt
        /\ inbox[r].task_id = i

\* C32 as stated: no later re-lookup of an unmatched message -- a message
\* whose In-Reply-To a lookup has once found no request for is never
\* linked to a request afterwards (stated for the passes of one run of the
\* process)
C32_NoLaterLookup ==
    nrestart = 0 =>
        \A k \in 1..Len(mail) :
            mail[k].missed => \A i \in 1..MaxTasks : ~Linked(k, i)

\* C32, amended: the lookup that finds no request leaves the rows of tasks
\* and inbox as they are, so the message is not taken for seen; and when a
\* later pass comes to a message missed before while a request carries its
\* In-Reply-To, the Date parses and every row the session has changed is
\* still stored, the step links the message to that request, which is
\* replied from then on
C32_LookedUpAgain ==
    /\ [][mail' # mail /\ Len(mail') = Len(mail)
            => tasks' = tasks /\ inbox' = inbox]_vars
    /\ [][(/\ PollMessage
           /\ mail[Head(ptodo)].missed
           /\ \A r \in 1..Len(inbox) : inbox[r].message_id # mail[Head(ptodo)].mid
           /\ Matches(tasks, mail[Head(ptodo)].irt) # {}
           /\ mail[Head(ptodo)].date_ok
           /\ pdirty \subseteq DOMAIN tasks
           /\ AccountOrder[pacct] \in accts)
          => \E i \in Matches(tasks, mail[Head(ptodo)].irt) :
                /\ inbox' = Append(inbox, [message_id |-> mail[Head(ptodo)].mid,
                                           in_reply_to |-> mail[Head(ptodo)].irt,
                                           task_id |-> i])
                /\ tasks'[i].status = "replied"
                /\ tasks'[i].message_id = mail[Head(ptodo)].irt]_vars

\* C32, the case: a message that a lookup has missed is linked to a request
\* that is replied
C32_Witness ==
    \E k \in 1..Len(mail) : \E i \in DOMAIN tasks :
        /\ mail[k].missed
        /\ Linked(k, i)
        /\ tasks[i].status = "replied"
        /\ tasks[i].message_id = mail[k].irt

\* the inbox rows that are linked to request i
LinksOf(rows, i) == {r \in 1..Len(rows) : rows[r].task_id = i}

\* C33 as stated: replied is terminal for reconciliation -- once a request
\* is replied no further inbound message is linked to it, so a request
\* never has more than one InboundMessage
C33_RepliedTerminal ==
    \A i \in DOMAIN tasks : Cardinality(LinksOf(inbox, i)) <= 1

\* C33, amended: replied is terminal for the status only -- no step of the
\* poller takes a stored request out of replied, and when the poller comes
\* to a message not yet recorded whose In-Reply-To is the identifier of a
\* replied request (the Date parses, every row the session has changed and
\* the account are still stored), it appends a further inbox row linked to
\* that request
C33_RepliedLinkedAgain ==
    /\ [][PollNext => \A i \in DOMAIN tasks \cap DOMAIN tasks' :
                         tasks[i].status = "replied" => tasks'[i].status = "replied"]_vars
    /\ [][(/\ PollMessage
           /\ \A r \in 1..Len(inbox) : inbox[r].message_id # mail[Head(ptodo)].mid
           /\ mail[Head(ptodo)].irt # NoMsgId
           /\ \E i \in DOMAIN tasks : /\ tasks[i].message_id = mail[Head(ptodo)].irt
                                      /\ tasks[i].status = "replied"
           /\ mail[Head(ptodo)].date_ok
           /\ pdirty \subseteq DOMAIN tasks
           /\ AccountOrder[pacct] \in accts)
          => \E i \in DOMAIN tasks :
                /\ tasks[i].message_id = mail[Head(ptodo)].irt
                /\ inbox' = Append(inbox, [message_id |-> mail[Head(ptodo)].mid,
                                           in_reply_to |-> mail[Head(ptodo)].irt,
                                           task_id |-> i])
                /\ LinksOf(inbox', i) # LinksOf(inbox, i)]_vars

\* C33, the case: a replied request with two inbox rows, of two messages,
\* that carry its identifier as In-Reply-To
C33_Witness ==
    \E i \in DOMAIN tasks : \E r1, r2 \in LinksOf(inbox, i) :
        /\ tasks[i].status = "replied"
        /\ inbox[r1].message_id # inbox[r2].message_id
        /\ inbox[r1].in_reply_to = tasks[i].message_id
        /\ inbox[r2].in_reply_to = tasks[i].message_id

\* C34: poller frame -- a step of the poller leaves the heap as it is,
\* stores and deletes no request, leaves attempts, last_error, message_id
\* and send_at of every request as they are, and changes a status only to
\* replied; a step of the worker leaves the rows of inbox as they are
C34_PollerFrame ==
    /\ [][PollNext
            => /\ TASK_HEAP' = TASK_HEAP
               /\ DOMAIN tasks' = DOMAIN tasks
               /\ \A i \in DOMAIN tasks :
                    /\ tasks'[i].attempts = tasks[i].attempts
                    /\ tasks'[i].last_error = tasks[i].last_error
                    /\ tasks'[i].message_id = tasks[i].message_id
                    /\ tasks'[i].send_at = tasks[i].send_at
                    /\ tasks'[i].status \in {tasks[i].status, "replied"}]_vars
    /\ [][(WorkerPop \/ WorkerLoad \/ WorkerMark \/ WorkerSend \/ WorkerSent
              \/ WorkerFailed)
            => inbox' = inbox]_vars

\* C34, the case: the poller has set a request replied and recorded the
\* message, and the worker is at work on a request while the inbox holds
\* that row
C34_Witness ==
    /\ inbox # <<>>
    /\ wpc \in {"mark", "send", "smtp"}
    /\ \E i \in DOMAIN tasks : tasks[i].status = "replied" /\ LinksOf(inbox, i) # {}

(* --------------------- the lock and the blocking calls ----------------- *)
\* a with statement whose block goes on over the rest of the worker's
\* iteration: the worker leaves line 188 with the lock still held
HeldOn(lock, t) == IF t = "worker" THEN lock ELSE "none"

\* the end of the with statement of thread t (after line 152, after line
\* 188): the lock is free again
WithExit(lock, t) == "none"

\* line 186 as reached from the top of the loop: the worker comes to its
\* with statement when it is not inside an iteration
HoldPeek ==
    /\ wpc = "pop"
    /\ WorkerPeek

\* the end of a with statement.  The worker that has popped an entry (line
\* 188) goes on to lines 194-195 with task_id_to_process set; the worker
\* that has not sleeps (line 191) and comes back
HoldRelease ==
    \E t \in Threads :
        /\ lpc[t] = "release"
        /\ lpc' = [lpc EXCEPT ![t] = "idle"]
        /\ lheap' = [lheap EXCEPT ![t] = <<>>]
        /\ lent' = IF t \in Pushers THEN [lent EXCEPT ![t] = NoEntry] ELSE lent
        /\ HEAP_LOCK' = WithExit(HEAP_LOCK, t)
        /\ IF t = "worker" /\ Due(lheap[t], now)
           THEN /\ wpc' = "load"
                /\ wid' = Head(lheap[t])[2]
                /\ wfire' = Head(lheap[t])[1]
           ELSE UNCHANGED <<wpc, wid, wfire>>
        /\ UNCHANGED <<now, tasks, staged, nrid, wobj, nmsg, nrestart, pollVars, quiet,
                       TASK_HEAP, WORKER_STARTED, pushed, popped>>

\* the threads are running: one request is stored and queued, due at once,
\* and one message waits in a mailbox
HoldInit ==
    /\ now = 0
    /\ tasks = <<NewTask(1, 0)>>
    /\ staged = <<>>
    /\ nrid = 1
    /\ TASK_HEAP = _push_task_heap(<<>>, 0, 1)
    /\ wpc = "pop"
    /\ wid = 0
    /\ wfire = NoFire
    /\ wobj = NoObj
    /\ nmsg = 0
    /\ nrestart = 0
    /\ mail \in Boxes(1, 0)
    /\ inbox = <<>>
    /\ ppc = "wait"
    /\ pacct = 0
    /\ ptodo = <<>>
    /\ pdirty = {}
    /\ accts = Accounts
    /\ gemini_api_key = TRUE
    /\ plist = {}
    /\ pexpired = FALSE
    /\ pmatch = 0
    /\ quiet = "no"
    /\ HEAP_LOCK = "none"
    /\ WORKER_STARTED = TRUE
    /\ lpc = [t \in Threads |-> "idle"]
    /\ lent = [t \in Pushers |-> NoEntry]
    /\ lheap = [t \in Threads |-> <<>>]
    /\ pushed = <<<<0, 1>>>>
    /\ popped = <<>>

\* the heap operations of the handlers and the worker, step by step, with
\* the worker's delivery and the poller's pass going on beside them
HoldNext ==
    \/ PushCall
    \/ HoldPeek
    \/ Acquire
    \/ ReadHeap
    \/ WriteInsert
    \/ WritePop
    \/ HoldRelease
    \/ WorkerLoad
    \/ WorkerMark
    \/ WorkerSend
    \/ WorkerSent
    \/ WorkerFailed
    \/ PollAdvance
    \/ PollMessage

HoldSpec == HoldInit /\ [][HoldNext]_vars

\* the places of the worker where it waits for the store or the network
\* (lines 194-212)
Blocking == {"load", "mark", "send", "smtp"}

\* C35: the queue lock is never held across blocking I/O -- the holder of
\* HEAP_LOCK is a handler or the worker (never the poller) and is inside
\* its heap operation; the worker that loads a request or calls the
\* transport is outside its with statement and does not hold the lock; so
\* while a delivery or a mailbox scan is going on, a handler that waits
\* for the lock waits for no one but a thread inside a heap operation
C35_LockNotHeldAcrossIO ==
    /\ HEAP_LOCK \in Threads \cup {"none"}
    /\ \A t \in Threads : HEAP_LOCK = t => lpc[t] \in {"read", "write", "release"}
    /\ wpc \in Blocking => HEAP_LOCK # "worker" /\ lpc["worker"] = "idle"
    /\ (wpc \in Blocking \/ ppc = "scan")
         => \A t \in Handlers :
              lpc[t] = "acquire" =>
                 \/ HEAP_LOCK = "none"
                 \/ lpc[HEAP_LOCK] \in {"read", "write", "release"}

\* C35, the case: the worker is inside the transport call and the poller
\* inside a mailbox while one handler writes the heap and the other waits
\* for the lock
C35_Witness ==
    /\ wpc = "smtp"
    /\ ppc = "scan"
    /\ \E s \in Handlers, t \in Handlers :
         /\ s # t
         /\ HEAP_LOCK = s
         /\ lpc[s] = "write"
         /\ lpc[t] = "acquire"

(* ------------------------ identifier and status ------------------------ *)
\* the engine at rest while the user goes on composing: MaxTasks requests
\* of earlier days are stored as sent (their history labels lie above
\* those of the requests still to come), one more request can be composed,
\* and the mailboxes hold any MaxMail + 1 messages
ReuseInit ==
    /\ now = 0
    /\ tasks = [i \in 1..MaxTasks |-> SentTask(MaxTasks + i, i)]
    /\ staged = <<>>
    /\ nrid = MaxTasks - 1
    /\ TASK_HEAP = <<>>
    /\ wpc = "pop"
    /\ wid = 0
    /\ wfire = NoFire
    /\ wobj = NoObj
    /\ nmsg = MaxTasks
    /\ nrestart = 0
    /\ mail \in Boxes(MaxMail + 1, MaxTasks)
    /\ inbox = <<>>
    /\ ppc = "wait"
    /\ pacct = 0
    /\ ptodo = <<>>
    /\ pdirty = {}
    /\ accts = Accounts
    /\ gemini_api_key = TRUE
    /\ plist = {}
    /\ pexpired = FALSE
    /\ pmatch = 0
    /\ quiet = "no"
    /\ LockIdle

\* the poller, pass after pass, while the CRUD layer deletes requests and
\* composes new ones
ReuseNext ==
    \/ PollAdvance
    \/ PollMessage
    \/ DeleteTask
    \/ CreateFlush
    \/ CreateCommit
    \/ CreateRollback

ReuseSpec == ReuseInit /\ [][ReuseNext]_vars

\* C36: correlation id and status agree -- in every stored state a request
\* has a message_id exactly when its status is sent or replied
C36_MsgIdIffSent ==
    \A i \in DOMAIN tasks :
        tasks[i].message_id # NoMsgId <=> tasks[i].status \in {"sent", "replied"}

(* ---------------------- one message, step by step ---------------------- *)
\* lines 234-254: the first half of a message.  The message is skipped
\* (lines 241, 249, 253), or the lookup of line 251 finds a task and line
\* 254 sets its status in the session; what follows (the headers, the
\* sentiment request of lines 268-278, the commit) comes later, and other
\* threads run in between
PollLookup ==
    /\ ppc = "scan"
    /\ ptodo # <<>>
    /\ pmatch = 0
    /\ LET m == mail[Head(ptodo)]
           found == Matches(tasks, m.irt)
       IN  IF Seen(inbox, m.mid) \/ m.irt = NoMsgId \/ found = {}
           THEN /\ ptodo' = Tail(ptodo)
                /\ mail' = LookedUp(mail, Head(ptodo), inbox, found)
                /\ UNCHANGED <<tasks, pdirty, pmatch>>
           ELSE LET i == CHOOSE x \in found : \A y \in found : x <= y
                IN  /\ pmatch' = i
                    /\ pdirty' = pdirty \cup Dirtied(tasks, i)
                    /\ tasks' = [tasks EXCEPT ![i].matched = TRUE]
                    /\ UNCHANGED <<mail, ptodo>>
    /\ UNCHANGED <<lockVars, gemini_api_key, now, staged, nrid, TASK_HEAP, workerVars, nmsg, nrestart,
                   inbox, accts, ppc, pacct, plist, pexpired, quiet>>

\* lines 255-285: the second half of a matched message.  A Date that does
\* not parse raises (line 257); else the Inbox row with task_match.id (line
\* 280) and every dirty task are committed (line 282), and an UPDATE of a
\* deleted row raises StaleDataError and rolls back; the INSERT of the
\* Inbox row needs no row of tasks (SQLite checks no foreign key here)
PollStore ==
    /\ ppc = "scan"
    /\ pmatch # 0
    /\ WriteLockFree
    /\ LET m == mail[Head(ptodo)]
           stale == m.date_ok /\ ~(pdirty \subseteq DOMAIN tasks)
       IN  IF Detached(pexpired \/ stale, AccountOrder[pacct], accts)
           THEN /\ ppc' = "dead"
                /\ pacct' = 0
                /\ ptodo' = <<>>
                /\ pdirty' = {}
                /\ plist' = {}
                /\ pexpired' = FALSE
                /\ quiet' = "no"
                /\ UNCHANGED <<tasks, inbox>>
           ELSE IF ~m.date_ok
           THEN /\ ptodo' = <<>>
                /\ UNCHANGED <<tasks, inbox, ppc, pacct, pdirty, plist, pexpired, quiet>>
           ELSE IF ~stale
           THEN /\ tasks' = Replied(tasks, pdirty)
                /\ inbox' = Append(inbox, [message_id |-> m.mid,
                                           in_reply_to |-> m.irt, task_id |-> pmatch])
                /\ pdirty' = {}
                /\ ptodo' = Tail(ptodo)
                /\ pexpired' = TRUE
                /\ UNCHANGED <<ppc, pacct, plist, quiet>>
           ELSE /\ pdirty' = {}
                /\ ptodo' = <<>>
                /\ pexpired' = TRUE
                /\ UNCHANGED <<tasks, inbox, ppc, pacct, plist, quiet>>
    /\ pmatch' = 0
    /\ UNCHANGED <<lockVars, gemini_api_key, now, staged, nrid, TASK_HEAP, workerVars, nmsg, nrestart,
                   mail, accts>>

\* the poller, pass after pass and each message in its two halves, while
\* the CRUD layer deletes requests
MatchNext ==
    \/ PollAdvance
    \/ PollLookup
    \/ PollStore
    \/ DeleteTask

MatchSpec == PollInit /\ [][MatchNext]_vars

\* C37: only matched messages are recorded -- every inbox row carries an
\* In-Reply-To and the id of a request, and in the state in which the row
\* is stored that request is stored with this In-Reply-To as its message_id
C37_OnlyMatchedRecorded ==
    [][\A r \in (Len(inbox) + 1)..Len(inbox') :
          /\ inbox'[r].in_reply_to # NoMsgId
          /\ inbox'[r].task_id \in DOMAIN tasks'
          /\ tasks'[inbox'[r].task_id].message_id = inbox'[r].in_reply_to]_vars

=============================================================================
